---- MODULE Spec2Model ----
(***************************************************************************)
(* Model of the universal-hello-world-compiler wrapper (src/src/index.ts). *)
(*                                                                         *)
(* The script reads the file named by the second-to-last process argument, *)
(* takes the last process argument as the target, and hands the template   *)
(* string `cargo run -r --target ${target}` to child_process.exec, whose   *)
(* callback prints stderr, the error, stdout and "Done!".                  *)
(*                                                                         *)
(* Strings are sequences of tokens; the tokens " " and ";" are the         *)
(* characters the shell started by exec gives a meaning to.  The bytes a   *)
(* child writes are the tokens of Byte.  exec is modelled with the options *)
(* the call leaves at their defaults: a shell, no timeout, and a capture   *)
(* buffer of maxBuffer bytes per stream (1024 * 1024 in Node, scaled down  *)
(* to MaxBuffer here) whose overflow truncates the capture and kills the   *)
(* child.                                                                  *)
(***************************************************************************)
EXTENDS Integers, Sequences, FiniteSets, TLC

VARIABLES argv, pc, exitStatus, spawned, child, cmdline, commands,
          wOut, wErr, cOut, cErr, ex, killed, exitCode, signal, log

vars == <<argv, pc, exitStatus, spawned, child, cmdline, commands,
          wOut, wErr, cOut, cErr, ex, killed, exitCode, signal, log>>

(* ------------------------------ bounds --------------------------------- *)

\* Largest number of tokens in a target string.
MaxTargetLen == 2

\* Largest number of arguments the caller supplies after the script path.
MaxUserArgs == 2

\* Capacity of exec's capture buffer per stream (stands for 1024 * 1024).
MaxBuffer == 2

\* A child writes at most this many bytes to each stream.
MaxWritten == MaxBuffer + 1

(* ------------------------------ strings -------------------------------- *)

RECURSIVE SeqsUpTo(_, _)
SeqsUpTo(S, n) ==
  IF n = 0 THEN {<<>>}
  ELSE LET shorter == SeqsUpTo(S, n - 1)
       IN  shorter \cup {Append(s, x) : s \in {t \in shorter : Len(t) = n - 1}, x \in S}

TargetToken == {"wasm32", " ", ";"}

TargetStrings == SeqsUpTo(TargetToken, MaxTargetLen)

\* process.argv[0] and process.argv[1]: the interpreter and the script.
RuntimeArgs == << <<"node">>, <<"index.ts">> >>

PathStrings == { <<"hello.js">>, <<"missing.txt">>, <<"srcdir">>, <<"secret.js">> }

UserStrings == PathStrings \cup TargetStrings

Byte == {"h", "w"}

\* The file system the run sees: what each path names.
FileKind(path) ==
  IF path \in {<<"node">>, <<"index.ts">>, <<"hello.js">>} THEN "file"
  ELSE IF path = <<"srcdir">> THEN "dir"
  ELSE IF path = <<"secret.js">> THEN "unreadable"
  ELSE "missing"

(* --------------------------- the main script --------------------------- *)

\* process.argv[process.argv.length - 2]
sourcePath == argv[Len(argv) - 1]

\* const target = process.argv[process.argv.length - 1]
target == argv[Len(argv)]

\* A readFileSync that only fails for a path that does not exist.
readFileSyncExists(path) == FileKind(path) # "missing"

\* fs.readFileSync(path, "utf8") returns (TRUE) or throws (FALSE).
readFileSync(path) == FileKind(path) = "file"

\* `cargo run -r --target ${target}`
ExecCommand(t) == <<"cargo", " ", "run", " ", "-r", " ", "--target", " ">> \o t

Init ==
  /\ argv \in {RuntimeArgs \o u : u \in SeqsUpTo(UserStrings, MaxUserArgs)}
  /\ pc = "start"
  /\ exitStatus = -1
  /\ spawned = 0
  /\ child = "none"
  /\ cmdline = <<>>
  /\ commands = <<>>
  /\ wOut = <<>>
  /\ wErr = <<>>
  /\ cOut = <<>>
  /\ cErr = <<>>
  /\ ex = "null"
  /\ killed = FALSE
  /\ exitCode = -1
  /\ signal = "null"
  /\ log = <<>>

\* An exit status that mirrors the child's failure.
ProcessExitMirrorsChild(uncaught, error) == IF uncaught \/ error # "null" THEN 1 ELSE 0

\* The status the runtime exits with: 1 for an uncaught exception, else 0
\* (the script never sets process.exitCode).
ProcessExit(uncaught, error) == IF uncaught THEN 1 ELSE 0

\* One write to the caller's streams.
Entry(stream, kind, text) == [stream |-> stream, kind |-> kind, text |-> text]

\* Line 4: the read either returns, or throws and the uncaught exception
\* ends the process with status 1.
Validate ==
  /\ pc = "start"
  /\ IF readFileSync(sourcePath)
       THEN /\ pc' = "validated"
            /\ UNCHANGED <<exitStatus, log>>
       ELSE /\ pc' = "exited"
            /\ exitStatus' = ProcessExit(TRUE, "null")
            /\ log' = Append(log, Entry("stderr", "uncaught", <<FileKind(sourcePath)>>))
  /\ UNCHANGED <<argv, spawned, child, cmdline, commands,
                 wOut, wErr, cOut, cErr, ex, killed, exitCode, signal>>

\* Lines 6-8: exec starts one child running the command string.
Dispatch ==
  /\ pc = "validated"
  /\ cmdline' = ExecCommand(target)
  /\ spawned' = spawned + 1
  /\ child' = "spawning"
  /\ pc' = "waiting"
  /\ UNCHANGED <<argv, exitStatus, commands,
                 wOut, wErr, cOut, cErr, ex, killed, exitCode, signal, log>>

(* ---------------------- the shell started by exec ---------------------- *)

\* The pieces of s between occurrences of sep.
RECURSIVE SplitOn(_, _)
SplitOn(s, sep) ==
  IF s = <<>> THEN << <<>> >>
  ELSE LET rest == SplitOn(Tail(s), sep)
       IN  IF Head(s) = sep
             THEN << <<>> >> \o rest
             ELSE << <<Head(s)>> \o Head(rest) >> \o Tail(rest)

\* Field splitting: the words of one command.
Words(segment) == SelectSeq(SplitOn(segment, " "), LAMBDA w : w # <<>>)

\* What `/bin/sh -c line` runs: the ";"-separated commands, each an argument
\* vector.  An empty command before a ";" is a syntax error and nothing runs.
ShellParse(line) ==
  LET segs == SplitOn(line, ";")
      cmds == [i \in 1..Len(segs) |-> Words(segs[i])]
      syntaxError == \E i \in 1..(Len(cmds) - 1) : cmds[i] = <<>>
  IN  IF syntaxError THEN <<>> ELSE SelectSeq(cmds, LAMBDA c : c # <<>>)

(* ------------------------------ the child ------------------------------ *)

\* The shell itself cannot be started: exec's 'error' handler records it.
ChildLaunchFail ==
  /\ child = "spawning"
  /\ child' = "launchfailed"
  /\ ex' = "spawn ENOENT"
  /\ UNCHANGED <<argv, pc, exitStatus, spawned, cmdline, commands,
                 wOut, wErr, cOut, cErr, killed, exitCode, signal, log>>

\* The shell starts and interprets the command string.
ChildStart ==
  /\ child = "spawning"
  /\ child' = "running"
  /\ commands' = ShellParse(cmdline)
  /\ UNCHANGED <<argv, pc, exitStatus, spawned, cmdline,
                 wOut, wErr, cOut, cErr, ex, killed, exitCode, signal, log>>

Chunks == SeqsUpTo(Byte, 2) \ {<<>>}

\* exec's 'data' handler: append the chunk, or on overflow of maxBuffer keep
\* only the part that fits.
OnData(captured, chunk) ==
  IF Len(captured) + Len(chunk) > MaxBuffer
    THEN [buf |-> captured \o SubSeq(chunk, 1, MaxBuffer - Len(captured)), overflow |-> TRUE]
    ELSE [buf |-> captured \o chunk, overflow |-> FALSE]

\* A 'data' handler that also relays the chunk at once.
ChildWriteStdoutLive ==
  \E chunk \in Chunks :
    /\ child = "running"
    /\ ~killed
    /\ Len(wOut) + Len(chunk) <= MaxWritten
    /\ wOut' = wOut \o chunk
    /\ cOut' = OnData(cOut, chunk).buf
    /\ log' = Append(log, Entry("stdout", "stdout", chunk))
    /\ IF OnData(cOut, chunk).overflow
         THEN /\ ex' = "maxBuffer stdout"
              /\ killed' = TRUE
         ELSE UNCHANGED <<ex, killed>>
    /\ UNCHANGED <<argv, pc, exitStatus, spawned, child, cmdline, commands,
                   wErr, cErr, exitCode, signal>>

\* The child writes to its stdout; exec collects it, and on overflow sets
\* the error, destroys the streams and sends the kill signal.
ChildWriteStdout ==
  \E chunk \in Chunks :
    /\ child = "running"
    /\ ~killed
    /\ Len(wOut) + Len(chunk) <= MaxWritten
    /\ wOut' = wOut \o chunk
    /\ cOut' = OnData(cOut, chunk).buf
    /\ IF OnData(cOut, chunk).overflow
         THEN /\ ex' = "maxBuffer stdout"
              /\ killed' = TRUE
         ELSE UNCHANGED <<ex, killed>>
    /\ UNCHANGED <<argv, pc, exitStatus, spawned, child, cmdline, commands,
                   wErr, cErr, exitCode, signal, log>>

\* The same for the child's stderr.
ChildWriteStderr ==
  \E chunk \in Chunks :
    /\ child = "running"
    /\ ~killed
    /\ Len(wErr) + Len(chunk) <= MaxWritten
    /\ wErr' = wErr \o chunk
    /\ cErr' = OnData(cErr, chunk).buf
    /\ IF OnData(cErr, chunk).overflow
         THEN /\ ex' = "maxBuffer stderr"
              /\ killed' = TRUE
         ELSE UNCHANGED <<ex, killed>>
    /\ UNCHANGED <<argv, pc, exitStatus, spawned, child, cmdline, commands,
                   wOut, cOut, exitCode, signal, log>>

ExitCodes == {0, 1, 127}

\* The child exits on its own.
ChildExit ==
  \E code \in ExitCodes :
    /\ child = "running"
    /\ child' = "exited"
    /\ exitCode' = code
    /\ UNCHANGED <<argv, pc, exitStatus, spawned, cmdline, commands,
                   wOut, wErr, cOut, cErr, ex, killed, signal, log>>

\* The kill signal sent by exec ends the child.
ChildKilled ==
  /\ child = "running"
  /\ killed
  /\ child' = "exited"
  /\ signal' = "SIGTERM"
  /\ UNCHANGED <<argv, pc, exitStatus, spawned, cmdline, commands,
                 wOut, wErr, cOut, cErr, ex, killed, exitCode, log>>

(* ----------------------------- the callback ---------------------------- *)

\* The error exec passes to the callback.
ExecError(e, code, sig) ==
  IF e # "null" THEN e
  ELSE IF code = 0 /\ sig = "null" THEN "null"
  ELSE "Command failed"

\* A callback body that prints stdout before the error.
ReportStdoutFirst(stderr, error, stdout) ==
     (IF stderr # <<>> THEN <<Entry("stderr", "stderr", stderr)>> ELSE <<>>)
  \o <<Entry("stdout", "stdout", stdout)>>
  \o (IF error # "null" THEN <<Entry("stderr", "error", <<error>>)>> ELSE <<>>)
  \o <<Entry("stdout", "done", <<"Done!">>)>>

\* A callback body that returns after printing the error.
ReportReturnOnError(stderr, error, stdout) ==
     (IF stderr # <<>> THEN <<Entry("stderr", "stderr", stderr)>> ELSE <<>>)
  \o (IF error # "null"
        THEN <<Entry("stderr", "error", <<error>>)>>
        ELSE <<Entry("stdout", "stdout", stdout), Entry("stdout", "done", <<"Done!">>)>>)

\* Lines 9-16: what the callback prints, in order.
Report(stderr, error, stdout) ==
     (IF stderr # <<>> THEN <<Entry("stderr", "stderr", stderr)>> ELSE <<>>)
  \o (IF error # "null" THEN <<Entry("stderr", "error", <<error>>)>> ELSE <<>>)
  \o <<Entry("stdout", "stdout", stdout)>>
  \o <<Entry("stdout", "done", <<"Done!">>)>>

\* A callback that launches the command again when it failed.
CallbackRetry ==
  /\ pc = "waiting"
  /\ child \in {"exited", "launchfailed"}
  /\ IF ExecError(ex, exitCode, signal) # "null"
       THEN /\ spawned' = spawned + 1
            /\ child' = "spawning"
            /\ ex' = "null"
            /\ UNCHANGED <<pc, exitStatus, log>>
       ELSE /\ log' = log \o Report(cErr, "null", cOut)
            /\ pc' = "exited"
            /\ exitStatus' = ProcessExit(FALSE, "null")
            /\ UNCHANGED <<spawned, child, ex>>
  /\ UNCHANGED <<argv, cmdline, commands,
                 wOut, wErr, cOut, cErr, killed, exitCode, signal>>

\* Lines 8-17: exec calls back once the child has closed (or failed to
\* start); the callback prints and the process ends.
Callback ==
  /\ pc = "waiting"
  /\ child \in {"exited", "launchfailed"}
  /\ log' = log \o Report(cErr, ExecError(ex, exitCode, signal), cOut)
  /\ pc' = "exited"
  /\ exitStatus' = ProcessExit(FALSE, ExecError(ex, exitCode, signal))
  /\ UNCHANGED <<argv, spawned, child, cmdline, commands,
                 wOut, wErr, cOut, cErr, ex, killed, exitCode, signal>>

Next ==
  \/ Validate
  \/ Dispatch
  \/ ChildLaunchFail
  \/ ChildStart
  \/ ChildWriteStdout
  \/ ChildWriteStderr
  \/ ChildExit
  \/ ChildKilled
  \/ Callback

Spec == Init /\ [][Next]_vars

(* ------------------------------ properties ----------------------------- *)

ValidationPasses == FileKind(sourcePath) = "file"

Reported == pc = "exited" /\ spawned > 0

HasEntry(kind) == \E i \in 1..Len(log) : log[i].kind = kind

\* The argument vector of the toolchain command with the target as one
\* opaque argument.
ArgVector(t) == << <<"cargo">>, <<"run">>, <<"-r">>, <<"--target">>, t >>

\* C1: once the child has started, the commands it runs are exactly the one
\* toolchain command, with the whole target as its single last argument.
C1_SingleOpaqueArgument ==
  child \in {"running", "exited"} => commands = << ArgVector(target) >>

\* C2: when the source path is missing, unreadable or a directory, no child
\* is ever spawned and neither a stdout relay nor the completion line is
\* printed.
C2_NoSpawnOnInvalidSource ==
  FileKind(sourcePath) \in {"missing", "unreadable", "dir"} =>
    /\ spawned = 0
    /\ child = "none"
    /\ ~HasEntry("stdout")
    /\ ~HasEntry("done")
    /\ pc \in {"start", "exited"}

C2_Witness ==
  /\ pc = "exited"
  /\ FileKind(sourcePath) = "dir"
  /\ exitStatus = 1
  /\ spawned = 0

Rank(kind) ==
  CASE kind = "stderr" -> 1
    [] kind = "error"  -> 2
    [] kind = "stdout" -> 3
    [] kind = "done"   -> 4
    [] OTHER           -> 0

\* C3: the report is stderr (only if non-empty), then the error (only if
\* there is one), then stdout (always), then the completion line, each at
\* most once and in that order.
C3_ReportOrder ==
  /\ \A i, j \in 1..Len(log) : i < j => Rank(log[i].kind) < Rank(log[j].kind)
  /\ Reported =>
       /\ HasEntry("stderr") <=> cErr # <<>>
       /\ HasEntry("error") <=> ExecError(ex, exitCode, signal) # "null"
       /\ \E i \in 1..Len(log) : log[i].kind = "stdout" /\ log[i].text = cOut
       /\ HasEntry("done")

C3_Witness ==
  /\ Reported
  /\ cErr # <<>>
  /\ cOut = <<>>
  /\ ExecError(ex, exitCode, signal) = "Command failed"
  /\ Len(log) = 4

\* C4: after a passed validation, a run that has ended has printed the
\* completion line last, whether the child succeeded, failed, was ended by
\* a signal or could not be launched; a launch error is printed before it.
C4_DoneForEveryOutcome ==
  Reported =>
    /\ Len(log) > 0
    /\ log[Len(log)].kind = "done"
    /\ child = "launchfailed" =>
         \E i \in 1..(Len(log) - 1) : log[i].kind = "error" /\ log[i].text = <<ex>>

C4_Witness ==
  /\ Reported
  /\ child = "launchfailed"
  /\ log[Len(log)].kind = "done"

\* C5: the exit status is non-zero exactly when validation fails; it is 0
\* after a passed validation whatever the child did.
C5_ExitStatus ==
  /\ pc = "exited" => (exitStatus # 0 <=> ~ValidationPasses)
  /\ pc = "exited" /\ ValidationPasses => exitStatus = 0
  /\ pc # "exited" => exitStatus = -1

C5_Witness ==
  /\ pc = "exited"
  /\ ValidationPasses
  /\ exitCode = 127
  /\ exitStatus = 0

\* C6: with a readable source, at most one child is ever spawned, exactly
\* one once the dispatcher has run, and none is added after a failure.
C6_ExactlyOneChild ==
  ValidationPasses =>
    /\ spawned <= 1
    /\ pc \in {"waiting", "exited"} => spawned = 1

C6_Witness ==
  /\ pc = "exited"
  /\ spawned = 1
  /\ ExecError(ex, exitCode, signal) # "null"

\* C7: when the result is reported, the captured stdout and stderr are all
\* the bytes the child wrote to each stream.
C7_CompleteCapture ==
  Reported => cOut = wOut /\ cErr = wErr

\* C8: nothing is written to the caller's streams while the child is
\* starting or running.
C8_NoLiveOutput ==
  child \in {"spawning", "running"} => log = <<>>

C8_Witness ==
  /\ child = "running"
  /\ wOut # <<>>
  /\ wErr # <<>>
  /\ log = <<>>

\* C9: the wrapper never ends the child: no kill signal is sent and the
\* child is never ended by one.
C9_NeverKillsChild ==
  ~killed /\ signal = "null"

\* C10: with fewer than two caller-supplied arguments, the interpreter and
\* script entries are not taken as source path or target: validation does
\* not pass on them and no child is launched.
C10_UserArgsOnly ==
  Len(argv) < Len(RuntimeArgs) + 2 =>
    /\ spawned = 0
    /\ pc # "validated"

====
